---- MODULE Spec2Model ----
(***************************************************************************)
(* A model of the map build pipeline of qevy:                              *)
(*   load.rs   handle_loaded_map_system  (teardown + build_map per map)    *)
(*   build.rs  build_map, mesh_spawn_system, post_build_map_system         *)
(*                                                                         *)
(* Conventions of the model                                                *)
(*  - Option<T> is a sequence of length 0 (None) or 1 (Some).              *)
(*  - A Vec3 is a triple of integers.  Lengths are world units; a mesh's   *)
(*    bounding-box center is kept doubled (min + max) so that it stays an  *)
(*    integer.  f32 property values are kept in thousandths.               *)
(*  - A texture name is the sequence of its characters, so that            *)
(*    str::contains is computed and not looked up.                         *)
(*  - A property string that the code splits on " " is the sequence of its *)
(*    tokens.                                                              *)
(*  - Commands are applied when the system that queued them returns; an    *)
(*    entity id is never reused.                                           *)
(*  - A panic sets aborted and ends the run: nothing the panicking system  *)
(*    queued is applied.                                                   *)
(***************************************************************************)
EXTENDS Integers, Sequences, FiniteSets, TLC

(* ------------------------------ bounds -------------------------------- *)
\* faces per brush in the texture family of maps
MaxFaces == 2
\* brushes per brush entity in the batching family of maps
MaxBrushes == 3
\* AssetEvent::LoadedWithDependencies events delivered in a run
MaxLoads == 2
\* entities carrying the Map component (q_maps)
NumMaps == 1

(* ------------------------- texture names ------------------------------ *)
TexTrigger == <<"t","r","i","g","g","e","r">>
TexClip == <<"c","l","i","p">>
TexCommonTrigger == <<"c","o","m","m","o","n","/","t","r","i","g","g","e","r">>
TexCommonClip == <<"c","o","m","m","o","n","/","c","l","i","p">>
TexWall == <<"w","a","l","l">>
TexIvy == <<"i","v","y","-","f","-","m">>
TexBare == <<"b","a","r","e">>

Textures ==
    {TexTrigger, TexClip, TexCommonTrigger, TexCommonClip, TexWall, TexIvy, TexBare}

\* str::contains(pat)
StrContains(s, pat) ==
    \E i \in 0..(Len(s) - Len(pat)) : SubSeq(s, i + 1, i + Len(pat)) = pat

\* mutant: the namespaced clip texture is forgotten
IsNoRenderTexture_ThreeNames(texture_name) ==
    \/ texture_name = TexTrigger
    \/ texture_name = TexClip
    \/ texture_name = TexCommonTrigger

\* build.rs 194-197: the "we don't render anything for these textures" test
IsNoRenderTexture(texture_name) ==
    \/ texture_name = TexTrigger
    \/ texture_name = TexClip
    \/ texture_name = TexCommonTrigger
    \/ texture_name = TexCommonClip

\* mutant: the marker is looked for at the end of the name only
IsFoliageTexture_Suffix(texture_name) ==
    /\ Len(texture_name) >= 2
    /\ SubSeq(texture_name, Len(texture_name) - 1, Len(texture_name)) = <<"-", "f">>

\* build.rs 204: texture_name.contains("-f")
IsFoliageTexture(texture_name) == StrContains(texture_name, <<"-","f">>)

(* ------------------- geometry library output -------------------------- *)
\* A face of the map names its texture and a shape; the shape stands for the
\* geometry library's tables for that face, already converted by
\* to_bevy_vertices / to_bevy_vec3s: its vertex loop, its flat normals, and
\* whether face_triangle_indices has an entry for it.
Tetra(o) ==
    << <<o[1], o[2], o[3]>>, <<o[1] + 20, o[2], o[3]>>,
       <<o[1], o[2] + 20, o[3]>>, <<o[1], o[2], o[3] + 20>> >>

\* bounding-box centers: A (10,10,10)  B (40,10,10)  C (60,10,10)
\* D (-10,10,10)  E (10,10,60)  F (10,-40,10); T is a lone triangle, too
\* few points for a convex volume
face_vertices(shape) ==
    CASE shape = "T" -> << <<0, 0, 0>>, <<20, 0, 0>>, <<0, 20, 0>> >>
      [] shape = "A" -> Tetra(<<0, 0, 0>>)
      [] shape = "B" -> Tetra(<<30, 0, 0>>)
      [] shape = "C" -> Tetra(<<50, 0, 0>>)
      [] shape = "D" -> Tetra(<<-20, 0, 0>>)
      [] shape = "E" -> Tetra(<<0, 0, 50>>)
      [] shape = "F" -> Tetra(<<0, -50, 0>>)

FlatNormal(shape) ==
    CASE shape = "T" -> <<0, 0, 1>>
      [] shape = "A" -> <<1, 0, 0>>
      [] shape = "B" -> <<0, 1, 0>>
      [] shape = "C" -> <<0, 0, -1>>
      [] shape = "D" -> <<-1, 0, 0>>
      [] shape = "E" -> <<0, 0, 1>>
      [] shape = "F" -> <<0, -1, 0>>

\* normals_flat: one normal per vertex of the face
face_normals(shape) == [i \in 1..Len(face_vertices(shape)) |-> FlatNormal(shape)]

(* --------------------------- MapAsset --------------------------------- *)
\* texture name -> material handle; the texture "bare" has no base color
\* texture and so no material
material_handles ==
    [t \in Textures \ {TexBare} |->
        CASE t = TexTrigger -> 1 [] t = TexClip -> 2 [] t = TexCommonTrigger -> 3
          [] t = TexCommonClip -> 4 [] t = TexWall -> 5 [] t = TexIvy -> 6]

texture_sizes == [t \in DOMAIN material_handles |-> <<64, Len(t)>>]

(* ------------------------------ meshes -------------------------------- *)
\* A Mesh is its ATTRIBUTE_POSITION and ATTRIBUTE_NORMAL lists.
NewMesh(vertices, normals) == [positions |-> vertices, normals |-> normals]

\* Mesh::merge: the other mesh's attributes are appended
MeshMerge(mesh, other) ==
    [positions |-> mesh.positions \o other.positions,
     normals |-> mesh.normals \o other.normals]

SeqToSet(s) == {s[i] : i \in DOMAIN s}

Min(S) == CHOOSE x \in S : \A y \in S : x <= y
Max(S) == CHOOSE x \in S : \A y \in S : y <= x

\* Mesh::compute_aabb().unwrap_or(zero box); the center doubled (min + max)
AabbCenter2(mesh) ==
    IF mesh.positions = <<>> THEN <<0, 0, 0>>
    ELSE [a \in 1..3 |->
            Min({mesh.positions[i][a] : i \in DOMAIN mesh.positions})
            + Max({mesh.positions[i][a] : i \in DOMAIN mesh.positions})]

(* ------------------------- property values ---------------------------- *)
\* str::parse::<f32> on the tokens the maps of this model use, in thousandths
ParseF32(token) ==
    CASE token = "0" -> <<0>>
      [] token = "1" -> <<1000>>
      [] token = "2" -> <<2000>>
      [] token = "3" -> <<3000>>
      [] token = "0.5" -> <<500>>
      [] token = "-1" -> <<-1000>>
      [] OTHER -> <<>>

\* BTreeMap::get(key).unwrap_or(default)
PropOr(props, key, default) == IF key \in DOMAIN props THEN props[key] ELSE default

\* conversions.rs: the basis change from map axes to host axes
to_bevy_position(v) == <<v[2], v[3], v[1]>>

to_bevy_rotation(v) == <<v[2], v[3], v[1]>>

Vec3Zero == <<0, 0, 0>>

QuatIdentity == <<0, 0, 0>>

TransformIdentity == [translation |-> Vec3Zero, rotation |-> QuatIdentity]

\* build.rs 93-116: the three tokens are parsed with unwrap()
TokensParse(tokens) == \A i \in 1..3 : ParseF32(tokens[i]) # <<>>

ParsedVec3(tokens) == [i \in 1..3 |-> ParseF32(tokens[i])[1]]

(* --------------------------- build_map -------------------------------- *)
\* build.rs 204-207: the normals a rendered face writes into its fragment
FaceNormalsOut(texture_name, normals) ==
    IF IsFoliageTexture(texture_name)
    THEN [i \in DOMAIN normals |-> <<0, 1, 0>>]
    ELSE normals

\* build.rs 224-232: meshes_to_spawn.entry(texture_name)
FragmentInsert(meshes_to_spawn, texture_name, mesh) ==
    IF texture_name \in DOMAIN meshes_to_spawn
    THEN [meshes_to_spawn EXCEPT ![texture_name] = MeshMerge(@, mesh)]
    ELSE meshes_to_spawn @@ (texture_name :> mesh)

\* the locals of one brush: brush_vertices, meshes_to_spawn, has_foliage
BrushLocals0 ==
    [brush_vertices |-> <<>>, meshes_to_spawn |-> <<>>, has_foliage |-> FALSE]

\* mutant: the vertices join the collision point set only after the
\* no-render test, so a trigger or clip face contributes none
FaceStep_ExtendAfterSkip(acc, face) ==
    IF ~face.has_indices \/ IsNoRenderTexture(face.tex)
    THEN acc
    ELSE LET vertices == face_vertices(face.shape)
         IN  [acc EXCEPT
                !.brush_vertices = @ \o vertices,
                !.has_foliage = @ \/ IsFoliageTexture(face.tex),
                !.meshes_to_spawn =
                    FragmentInsert(@, face.tex,
                        NewMesh(vertices,
                            FaceNormalsOut(face.tex, face_normals(face.shape))))]

\* build.rs 176-233: the body of the loop over the faces of a brush
FaceStep(acc, face) ==
    IF ~face.has_indices
    THEN acc
    ELSE LET vertices == face_vertices(face.shape)
             acc1 == [acc EXCEPT !.brush_vertices = @ \o vertices]
         IN  IF IsNoRenderTexture(face.tex)
             THEN acc1
             ELSE [acc1 EXCEPT
                     !.has_foliage = @ \/ IsFoliageTexture(face.tex),
                     !.meshes_to_spawn =
                         FragmentInsert(@, face.tex,
                             NewMesh(vertices,
                                 FaceNormalsOut(face.tex, face_normals(face.shape))))]

RECURSIVE FoldFaces(_, _, _)
FoldFaces(acc, brush_faces, i) ==
    IF i > Len(brush_faces) THEN acc
    ELSE FoldFaces(FaceStep(acc, brush_faces[i]), brush_faces, i + 1)

\* Collider::convex_hull(points): Some unless the point set is degenerate
ConvexHull(points) == Cardinality(SeqToSet(points)) >= 4

\* build.rs 270: only a fragment whose texture has a material is sent
HasMaterial(texture_name) == texture_name \in DOMAIN material_handles

IsTriggerClass(classname) ==
    classname = "trigger_multiple" \/ classname = "trigger_once"

\* mutant: the foliage test comes before the trigger tests
ColliderNode_FoliageFirst(c, has_foliage) ==
    [kind |-> "collider", parent |-> c.brush_entity,
     transform |-> TransformIdentity,
     collider |-> ~has_foliage,
     rigid_body |-> IF has_foliage THEN "none"
                    ELSE IF IsTriggerClass(c.classname) THEN "Dynamic" ELSE "Static",
     sensor |-> IsTriggerClass(c.classname) /\ ~has_foliage,
     trigger |-> IF c.classname = "trigger_multiple"
                 THEN <<[kind |-> "TriggerMultiple", target |-> c.props["target"]]>>
                 ELSE IF c.classname = "trigger_once"
                 THEN <<[kind |-> "TriggerOnce", target |-> c.props["target"]]>>
                 ELSE <<>>,
     cycle |-> c.cycle, ent |-> c.ent, brush |-> c.brush]

\* build.rs 241-267: the collision volume node of a brush
ColliderNode(c, has_foliage) ==
    [kind |-> "collider", parent |-> c.brush_entity,
     transform |-> TransformIdentity,
     collider |-> IsTriggerClass(c.classname) \/ ~has_foliage,
     rigid_body |-> IF IsTriggerClass(c.classname) THEN "Dynamic"
                    ELSE IF has_foliage THEN "none" ELSE "Static",
     sensor |-> IsTriggerClass(c.classname),
     trigger |-> IF c.classname = "trigger_multiple"
                 THEN <<[kind |-> "TriggerMultiple", target |-> c.props["target"]]>>
                 ELSE IF c.classname = "trigger_once"
                 THEN <<[kind |-> "TriggerOnce", target |-> c.props["target"]]>>
                 ELSE <<>>,
     cycle |-> c.cycle, ent |-> c.ent, brush |-> c.brush]

\* every order in which a HashMap may yield the keys S
RECURSIVE Perms(_)
Perms(S) ==
    IF S = {} THEN {<<>>}
    ELSE UNION {{<<x>> \o p : p \in Perms(S \ {x})} : x \in S}

\* mutant: the loop over meshes_to_spawn stops after the first event
BrushEvents_FirstOnly(c, collider_id, meshes_to_spawn, order, uid0) ==
    LET names == SelectSeq(order, HasMaterial)
    IN  [i \in 1..(IF names = <<>> THEN 0 ELSE 1) |->
            [map |-> c.map_entity, brush |-> c.brush_entity,
             mesh |-> meshes_to_spawn[names[i]],
             collider |-> <<collider_id>>,
             material |-> material_handles[names[i]],
             texture_name |-> names[i],
             texture_size |-> texture_sizes[names[i]],
             uid |-> uid0 + i - 1, cycle |-> c.cycle]]

\* mutant: the material test is dropped and a missing material or size
\* defaults instead of being skipped
BrushEvents_NoMaterialTest(c, collider_id, meshes_to_spawn, order, uid0) ==
    [i \in 1..Len(order) |->
        [map |-> c.map_entity, brush |-> c.brush_entity,
         mesh |-> meshes_to_spawn[order[i]],
         collider |-> <<collider_id>>,
         material |-> IF order[i] \in DOMAIN material_handles
                      THEN material_handles[order[i]] ELSE 0,
         texture_name |-> order[i],
         texture_size |-> IF order[i] \in DOMAIN texture_sizes
                          THEN texture_sizes[order[i]] ELSE <<0, 0>>,
         uid |-> uid0 + i - 1, cycle |-> c.cycle]]

\* build.rs 269-289: the events of one brush, in the order `order`
BrushEvents(c, collider_id, meshes_to_spawn, order, uid0) ==
    LET names == SelectSeq(order, HasMaterial)
    IN  [i \in 1..Len(names) |->
            [map |-> c.map_entity, brush |-> c.brush_entity,
             mesh |-> meshes_to_spawn[names[i]],
             collider |-> <<collider_id>>,
             material |-> material_handles[names[i]],
             texture_name |-> names[i],
             texture_size |-> texture_sizes[names[i]],
             uid |-> uid0 + i - 1, cycle |-> c.cycle]]

\* build.rs 170-291: one brush of a brush entity; the set of outcomes, one
\* per iteration order of meshes_to_spawn
BuildBrush(w, c, brush_faces) ==
    LET acc == FoldFaces(BrushLocals0, brush_faces, 1)
        hull == ConvexHull(acc.brush_vertices)
        entry == [cycle |-> c.cycle, ent |-> c.ent, brush |-> c.brush,
                  points |-> SeqToSet(acc.brush_vertices),
                  meshes_to_spawn |-> acc.meshes_to_spawn,
                  has_foliage |-> acc.has_foliage, hull |-> hull,
                  collider |-> IF hull THEN <<w.next_id>> ELSE <<>>,
                  node |-> IF hull /\ ~(IsTriggerClass(c.classname)
                                        /\ "target" \notin DOMAIN c.props)
                           THEN <<ColliderNode(c, acc.has_foliage)>> ELSE <<>>]
        w1 == [w EXCEPT !.brush_log = @ \cup {entry}]
    IN  IF ~hull THEN {w1}
        ELSE IF IsTriggerClass(c.classname) /\ "target" \notin DOMAIN c.props
        THEN {[w EXCEPT !.panicked = TRUE]}
        ELSE {LET evs == BrushEvents(c, w.next_id, acc.meshes_to_spawn, order,
                                     w.next_uid)
              IN  [w1 EXCEPT
                     !.nodes = @ @@ (w.next_id :> ColliderNode(c, acc.has_foliage)),
                     !.next_id = @ + 1,
                     !.spawn_mesh_event = @ \o evs,
                     !.sent = @ \cup SeqToSet(evs),
                     !.next_uid = @ + Len(evs)]
              : order \in Perms(DOMAIN acc.meshes_to_spawn)}

RECURSIVE BuildBrushes(_, _, _, _)
BuildBrushes(W, c, brushes, i) ==
    IF i > Len(brushes) THEN W
    ELSE BuildBrushes(
            UNION {IF w.panicked THEN {w}
                   ELSE BuildBrush(w, [c EXCEPT !.brush = i], brushes[i]) : w \in W},
            c, brushes, i + 1)

\* build.rs 129-133 and 355-359
TriggerTargetOf(props) ==
    IF "targetname" \in DOMAIN props THEN <<props["targetname"]>> ELSE <<>>

EntityNode(map_entity, is_brush, props, transform, cycle, ent) ==
    [kind |-> "entity", parent |-> map_entity, brush_entity |-> is_brush,
     classname |-> PropOr(props, "classname", ""),
     props_transform |-> transform, properties |-> props,
     transform |-> IF is_brush THEN <<TransformIdentity>> ELSE <<>>,
     trigger_target |-> TriggerTargetOf(props),
     light |-> <<>>, mover |-> <<>>, door |-> <<>>,
     passes |-> 0, cycle |-> cycle, ent |-> ent]

\* build.rs 76-135: one point entity
SpawnPointEntity(w, map_entity, props, cycle, ent) ==
    LET translation == PropOr(props, "origin", <<"0", "0", "0">>)
        rotation == PropOr(props, "angles", <<"0", "0", "0">>)
    IN  IF \/ (Len(translation) = 3 /\ ~TokensParse(translation))
           \/ (Len(rotation) = 3 /\ ~TokensParse(rotation))
        THEN [w EXCEPT !.panicked = TRUE]
        ELSE LET t == IF Len(translation) = 3
                      THEN to_bevy_position(ParsedVec3(translation))
                      ELSE Vec3Zero
                 r == IF Len(rotation) = 3
                      THEN to_bevy_rotation(ParsedVec3(rotation))
                      ELSE QuatIdentity
             IN  [w EXCEPT
                    !.nodes = @ @@ (w.next_id :>
                        EntityNode(map_entity, FALSE, props,
                                   [translation |-> t, rotation |-> r], cycle, ent)),
                    !.next_id = @ + 1]

RECURSIVE SpawnPointEntities(_, _, _, _, _)
SpawnPointEntities(w, map_entity, entities, cycle, i) ==
    IF i > Len(entities) \/ w.panicked THEN w
    ELSE SpawnPointEntities(
            IF entities[i].props # <<>> /\ entities[i].brushes = <<>>
            THEN SpawnPointEntity(w, map_entity, entities[i].props[1], cycle, i)
            ELSE w,
            map_entity, entities, cycle, i + 1)

\* build.rs 138-361: one brush entity and its brushes
SpawnBrushEntity(w, map_entity, entity, cycle, ent) ==
    IF entity.props = <<>> THEN {[w EXCEPT !.panicked = TRUE]}
    ELSE LET props == entity.props[1]
             c == [map_entity |-> map_entity, brush_entity |-> w.next_id,
                   classname |-> PropOr(props, "classname", ""), props |-> props,
                   cycle |-> cycle, ent |-> ent, brush |-> 0]
             w1 == [w EXCEPT
                      !.nodes = @ @@ (w.next_id :>
                          EntityNode(map_entity, TRUE, props, TransformIdentity,
                                     cycle, ent)),
                      !.next_id = @ + 1]
         IN  BuildBrushes({w1}, c, entity.brushes, 1)

RECURSIVE SpawnBrushEntities(_, _, _, _, _)
SpawnBrushEntities(W, map_entity, entities, cycle, i) ==
    IF i > Len(entities) THEN W
    ELSE SpawnBrushEntities(
            UNION {IF w.panicked \/ entities[i].brushes = <<>> THEN {w}
                   ELSE SpawnBrushEntity(w, map_entity, entities[i], cycle, i)
                   : w \in W},
            map_entity, entities, cycle, i + 1)

\* mutant: build_map returns without sending the event
SendPostBuild_Dropped(w, map_entity, cycle) == w

\* build.rs 363
SendPostBuild(w, map_entity, cycle) ==
    [w EXCEPT !.post_build_map_event =
                  @ \o <<[map |-> map_entity, cycle |-> cycle]>>,
              !.issued = @ \cup {cycle}]

\* build.rs 31-364: build_map, the set of its outcomes
build_map(w, map_entity, map_asset) ==
    LET cycle == w.cycle + 1
        w0 == [w EXCEPT !.cycle = cycle, !.map_of = Append(@, map_entity)]
        w1 == SpawnPointEntities(w0, map_entity, map_asset, cycle, 1)
    IN  {IF w2.panicked THEN w2 ELSE SendPostBuild(w2, map_entity, cycle)
         : w2 \in SpawnBrushEntities({w1}, map_entity, map_asset, cycle, 1)}

(* ----------------------- mesh_spawn_system ---------------------------- *)
\* build.rs 390: the bucket cell size
CellSize == 50

\* mutant: the quotient is truncated toward zero (`as i32` without floor)
FloorDiv_Truncate(a, b) == IF a >= 0 THEN a \div b ELSE -((-a) \div b)

\* f32::floor of a quotient by a positive divisor
FloorDiv(a, b) == a \div b

\* build.rs 381-384 and 397-399: the Transform of the event's reference node,
\* the identity when the query finds none
RefTransform(ns, collider, map) ==
    LET ref == IF collider # <<>> THEN collider[1] ELSE map
    IN  IF ref \in DOMAIN ns THEN ns[ref].transform ELSE TransformIdentity

\* build.rs 385-393: translation and doubled center over the doubled cell size
Bucket(transform, mesh) ==
    LET c2 == AabbCenter2(mesh)
    IN  [a \in 1..3 |-> FloorDiv(2 * transform.translation[a] + c2[a], 2 * CellSize)]

\* build.rs 401-405: inverse(transform) * other_transform applied to the mesh
\* (the transforms of reference nodes carry no rotation)
MeshTransformedBy(mesh, transform, other_transform) ==
    [mesh EXCEPT !.positions =
        [i \in DOMAIN @ |->
            [a \in 1..3 |-> @[i][a] + other_transform.translation[a]
                                    - transform.translation[a]]]]

\* build.rs 394: the grouping key of an event
GroupKey(ns, ev) ==
    <<ev.brush, ev.material,
      Bucket(RefTransform(ns, ev.collider, ev.map), ev.mesh)>>

\* Commands::entity(id) panics when the entity does not exist
AttachParent(ev_collider, ev_map) ==
    IF ev_collider # <<>> THEN ev_collider[1] ELSE ev_map

BrushMarkerNode(parent, ev, transform) ==
    [kind |-> "brush", parent |-> parent, texture_name |-> ev.texture_name,
     texture_size |-> ev.texture_size, transform |-> transform, uid |-> ev.uid]

\* mutant: an event that starts a group spawns a marker as well
ConsolidateStep_MarkerAlways(st, ns, ev) ==
    LET transform == RefTransform(ns, ev.collider, ev.map)
        key == GroupKey(ns, ev)
    IN  IF key \in DOMAIN st.consolidated_meshes
        THEN LET entry == st.consolidated_meshes[key]
                 other_transform == RefTransform(ns, entry.collider, entry.map)
                 merged == MeshMerge(entry.mesh,
                             MeshTransformedBy(ev.mesh, transform, other_transform))
                 parent == AttachParent(ev.collider, ev.map)
             IN  [st EXCEPT
                    !.consolidated_meshes[key].mesh = merged,
                    !.consolidated_meshes[key].srcs = @ \cup {ev.uid},
                    !.markers = @ \o <<BrushMarkerNode(parent, ev, transform)>>,
                    !.panicked = @ \/ parent \notin DOMAIN ns]
        ELSE [st EXCEPT
                !.markers = @ \o <<BrushMarkerNode(AttachParent(ev.collider, ev.map),
                                                   ev, transform)>>,
                !.keys = Append(@, key),
                !.consolidated_meshes = @ @@ (key :>
                    [collider |-> ev.collider, map |-> ev.map, mesh |-> ev.mesh,
                     texture_size |-> ev.texture_size,
                     texture_name |-> ev.texture_name,
                     srcs |-> {ev.uid}, cycle |-> ev.cycle])]

\* build.rs 379-445: the body of the loop over the events
ConsolidateStep(st, ns, ev) ==
    LET transform == RefTransform(ns, ev.collider, ev.map)
        key == GroupKey(ns, ev)
    IN  IF key \in DOMAIN st.consolidated_meshes
        THEN LET entry == st.consolidated_meshes[key]
                 other_transform == RefTransform(ns, entry.collider, entry.map)
                 merged == MeshMerge(entry.mesh,
                             MeshTransformedBy(ev.mesh, transform, other_transform))
                 parent == AttachParent(ev.collider, ev.map)
             IN  [st EXCEPT
                    !.consolidated_meshes[key].mesh = merged,
                    !.consolidated_meshes[key].srcs = @ \cup {ev.uid},
                    !.markers = @ \o <<BrushMarkerNode(parent, ev, transform)>>,
                    !.panicked = @ \/ parent \notin DOMAIN ns]
        ELSE [st EXCEPT
                !.keys = Append(@, key),
                !.consolidated_meshes = @ @@ (key :>
                    [collider |-> ev.collider, map |-> ev.map, mesh |-> ev.mesh,
                     texture_size |-> ev.texture_size,
                     texture_name |-> ev.texture_name,
                     srcs |-> {ev.uid}, cycle |-> ev.cycle])]

RECURSIVE Consolidate(_, _, _, _)
Consolidate(st, ns, evs, i) ==
    IF i > Len(evs) THEN st
    ELSE Consolidate(ConsolidateStep(st, ns, evs[i]), ns, evs, i + 1)

\* build.rs 453-497: the final render object of one group
RenderNode(key, entry, run) ==
    [kind |-> "render", parent |-> AttachParent(entry.collider, entry.map),
     texture_name |-> entry.texture_name, texture_size |-> entry.texture_size,
     material |-> key[2], mesh |-> entry.mesh, transform |-> TransformIdentity,
     key |-> key, srcs |-> entry.srcs, cycle |-> entry.cycle, run |-> run]

RECURSIVE SpawnAll(_, _, _, _)
SpawnAll(ns, id, new_nodes, i) ==
    IF i > Len(new_nodes) THEN ns
    ELSE SpawnAll(ns @@ (id :> new_nodes[i]), id + 1, new_nodes, i + 1)

\* history: the doubled world position of an event's bounding-box center, the
\* translations of the reference node and of its ancestors added up
RECURSIVE WorldTranslation(_, _)
WorldTranslation(ns, id) ==
    IF id \notin DOMAIN ns THEN Vec3Zero
    ELSE LET t == IF ns[id].kind = "entity"
                  THEN (IF ns[id].transform = <<>> THEN Vec3Zero
                        ELSE ns[id].transform[1].translation)
                  ELSE ns[id].transform.translation
             up == WorldTranslation(ns, ns[id].parent)
         IN  [a \in 1..3 |-> t[a] + up[a]]

WorldCenter2(ns, ev) ==
    LET t == WorldTranslation(ns, AttachParent(ev.collider, ev.map))
        c2 == AabbCenter2(ev.mesh)
    IN  [a \in 1..3 |-> 2 * t[a] + c2[a]]

\* build.rs 366-498: mesh_spawn_system over the unread events.  The order in
\* which consolidated_meshes yields its groups decides only which fresh id a
\* render object gets; the groups are taken in the order they were started.
mesh_spawn_system(w) ==
    LET st == Consolidate([consolidated_meshes |-> <<>>, keys |-> <<>>,
                           markers |-> <<>>, panicked |-> FALSE],
                          w.nodes, w.spawn_mesh_event, 1)
        cm == st.consolidated_meshes
        run == w.runs + 1
    IN  IF \/ st.panicked
           \/ \E k \in DOMAIN cm :
                AttachParent(cm[k].collider, cm[k].map) \notin DOMAIN w.nodes
        THEN [w EXCEPT !.panicked = TRUE]
        ELSE LET renders == [i \in DOMAIN st.keys |->
                                RenderNode(st.keys[i], cm[st.keys[i]], run)]
                 new_nodes == st.markers \o renders
             IN  [w EXCEPT
                     !.nodes = SpawnAll(@, w.next_id, new_nodes, 1),
                     !.next_id = @ + Len(new_nodes),
                     !.spawn_mesh_event = <<>>,
                     !.runs = run,
                     !.consumed = @ \o [i \in DOMAIN w.spawn_mesh_event |->
                        [uid |-> w.spawn_mesh_event[i].uid, run |-> run,
                         center2 |-> WorldCenter2(w.nodes, w.spawn_mesh_event[i])]],
                     !.batch_log = @ \cup
                        {[run |-> run, cycle |-> cm[k].cycle, key |-> k,
                          ent |-> IF k[1] \in DOMAIN w.nodes
                                  THEN w.nodes[k[1]].ent ELSE 0,
                          texture_name |-> cm[k].texture_name,
                          parent_brush |->
                            IF cm[k].collider # <<>>
                            THEN w.nodes[cm[k].collider[1]].brush ELSE 0,
                          vertex_count |-> Len(cm[k].mesh.positions),
                          srcs |-> cm[k].srcs] : k \in DOMAIN cm}]

(* --------------------- post_build_map_system -------------------------- *)
\* components.rs: the typed getters of MapEntityProperties
get_property_as_f32(props, key, default) ==
    IF key \in DOMAIN props /\ ParseF32(props[key]) # <<>>
    THEN ParseF32(props[key])[1] ELSE default

get_property_as_vec3(props, key, default) ==
    IF key \in DOMAIN props /\ Len(props[key]) = 3 /\ TokensParse(props[key])
    THEN ParsedVec3(props[key]) ELSE default

get_property_as_bool(props, key, default) ==
    IF key \in DOMAIN props THEN props[key] \in {"1", "true"} ELSE default

get_property_as_string(props, key, default) ==
    IF key \in DOMAIN props THEN <<props[key]>> ELSE default

get_property_as_color(props, key, default) ==
    IF key \in DOMAIN props THEN props[key] ELSE default

\* components.rs: MoverState::default()
MoverStateDefault == "IdleAtOrigin"

\* Duration::from_secs_f32 panics on a negative value
DurationPanics(secs) == secs < 0

\* mutant: moving_time defaults to the default of destination_time
MovingTime_DefaultTwo(props) == get_property_as_f32(props, "moving_time", 2000)

\* build.rs 541-546: the two durations of a mover
MovingTime(props) == get_property_as_f32(props, "moving_time", 1000)

DestinationTime(props) == get_property_as_f32(props, "destination_time", 2000)

\* build.rs 540-554
MoverOf(props) ==
    [moving_time |-> MovingTime(props),
     destination_time |-> DestinationTime(props),
     destination_offset |->
        to_bevy_position(get_property_as_vec3(props, "destination_offset", Vec3Zero)),
     state |-> MoverStateDefault]

\* mutant: an absent mover_kind defaults to "door"
DoorOf_DefaultDoor(props) ==
    LET mover_kind == get_property_as_string(props, "mover_kind", <<"door">>)
    IN  IF mover_kind # <<>> /\ mover_kind[1] = "door"
        THEN <<[key |-> get_property_as_string(props, "key", <<>>),
                open_once |-> get_property_as_bool(props, "open_once", FALSE)]>>
        ELSE <<>>

\* build.rs 561-573: the Door of a mover, if any
DoorOf(props) ==
    LET mover_kind == get_property_as_string(props, "mover_kind", <<"linear">>)
    IN  IF mover_kind # <<>> /\ mover_kind[1] = "door"
        THEN <<[key |-> get_property_as_string(props, "key", <<>>),
                open_once |-> get_property_as_bool(props, "open_once", FALSE)]>>
        ELSE <<>>

\* build.rs 510-576: what one event's pass queues for one map entity
ResolveEntity(n) ==
    LET props == n.properties
    IN  CASE n.classname = "light" ->
               [n EXCEPT !.transform = <<n.props_transform>>,
                         !.light = <<[kind |-> "point",
                            color |-> get_property_as_color(props, "color", "WHITE"),
                            radius |-> get_property_as_f32(props, "radius", 0),
                            range |-> get_property_as_f32(props, "range", 10000),
                            intensity |-> get_property_as_f32(props, "intensity", 800000),
                            shadows_enabled |->
                                get_property_as_bool(props, "shadows_enabled", FALSE)]>>]
          [] n.classname = "directional_light" ->
               [n EXCEPT !.transform = <<n.props_transform>>,
                         !.light = <<[kind |-> "directional",
                            color |-> get_property_as_color(props, "color", "WHITE"),
                            illuminance |->
                                get_property_as_f32(props, "illuminance", 10000000),
                            shadows_enabled |->
                                get_property_as_bool(props, "shadows_enabled", FALSE)]>>]
          [] n.classname = "mover" ->
               [n EXCEPT !.transform = <<TransformIdentity>>,
                         !.mover = <<MoverOf(props)>>,
                         !.door = IF DoorOf(props) # <<>> THEN DoorOf(props) ELSE @]
          [] OTHER -> n

ResolvePanics(n) ==
    /\ n.classname = "mover"
    /\ \/ DurationPanics(MovingTime(n.properties))
       \/ DurationPanics(DestinationTime(n.properties))

\* build.rs 500-579: post_build_map_system over the unread events
post_build_map_system(w) ==
    LET events == w.post_build_map_event
        ents == {id \in DOMAIN w.nodes : w.nodes[id].kind = "entity"}
    IN  IF \E id \in ents : ResolvePanics(w.nodes[id])
        THEN [w EXCEPT !.panicked = TRUE]
        ELSE [w EXCEPT
                !.nodes = [id \in DOMAIN @ |->
                             IF id \in ents
                             THEN [ResolveEntity(@[id]) EXCEPT
                                     !.passes = @ + Len(events)]
                             ELSE @[id]],
                !.post_build_map_event = <<>>,
                !.resolved = @ \cup {events[i].cycle : i \in DOMAIN events}]

(* -------------------- handle_loaded_map_system ------------------------ *)
RECURSIVE IsDescendant(_, _, _)
IsDescendant(ns, n, m) ==
    /\ n \in DOMAIN ns
    /\ \/ ns[n].parent = m
       \/ IsDescendant(ns, ns[n].parent, m)

\* mutant: only the children of the map node are despawned
DespawnDescendants_ChildrenOnly(w, map_entity) ==
    [w EXCEPT !.nodes =
        [n \in {x \in DOMAIN @ : @[x].parent # map_entity} |-> @[n]]]

\* load.rs 62: despawn_descendants
DespawnDescendants(w, map_entity) ==
    [w EXCEPT !.nodes =
        [n \in {x \in DOMAIN @ : ~IsDescendant(@, x, map_entity)} |-> @[n]]]

MapEntities == 1..NumMaps

\* load.rs 54: the entities carrying the Map component
q_maps(w) == {id \in DOMAIN w.nodes : w.nodes[id].kind = "map"}

\* load.rs 61-72: the loop over q_maps for one asset event
RECURSIVE BuildMaps(_, _, _)
BuildMaps(W, map_asset, m) ==
    IF \A w \in W : m \notin q_maps(w) THEN W
    ELSE BuildMaps(
            UNION {IF w.panicked THEN {w}
                   ELSE build_map(DespawnDescendants(w, m), m, map_asset) : w \in W},
            map_asset, m + 1)

\* load.rs 58-76: the loop over the unread asset events
RECURSIVE HandleEvents(_, _, _)
HandleEvents(W, map_asset, k) ==
    IF k = 0 THEN W
    ELSE HandleEvents(BuildMaps(W, map_asset, 1), map_asset, k - 1)

(* ------------------------------ maps ---------------------------------- *)
\* A map is the list of its entities, in entity id order; an entity is its
\* properties record (or none) and its brushes; a brush is its list of faces.
Entity(props, brushes) == [props |-> props, brushes |-> brushes]

Face(tex, shape, has_indices) ==
    [tex |-> tex, shape |-> shape, has_indices |-> has_indices]

ShapeOrder == <<"A", "B", "C", "D", "E", "F">>

World0 == [classname |-> "worldspawn"]

\* the textures in the order the faces of a brush list them
TextureOrder ==
    <<TexIvy, TexWall, TexBare, TexTrigger, TexClip, TexCommonTrigger,
      TexCommonClip>>

FaceRank(choice) ==
    2 * (CHOOSE i \in DOMAIN TextureOrder : TextureOrder[i] = choice[1])
      + (IF choice[2] THEN 0 ELSE 1)

\* face lists of at most MaxFaces faces over the choices S, the faces of one
\* texture next to each other; the i-th face has the i-th shape
FaceLists(S) ==
    {[i \in DOMAIN f |-> Face(f[i][1], ShapeOrder[i], f[i][2])]
     : f \in {g \in UNION {[1..n -> S] : n \in 1..MaxFaces} :
                \A i \in DOMAIN g : i = 1 \/ FaceRank(g[i - 1]) <= FaceRank(g[i])}}

\* texture family: one brush whose faces take every texture, and one whose
\* faces may be absent from the triangulation output, over one texture of
\* each kind (no-render, rendered, no material)
TextureMaps ==
    {<<Entity(<<World0>>, <<faces>>)>>
     : faces \in FaceLists(Textures \X {TRUE})
                 \cup FaceLists({TexTrigger, TexWall, TexBare} \X BOOLEAN)}

\* batching family: several one-face brushes of one brush entity, all of one
\* material, placed on both sides of the cell borders of every axis
BatchMaps ==
    {<<Entity(<<World0>>,
         [i \in DOMAIN g |-> <<Face(TexWall, ShapeOrder[g[i]], TRUE)>>])>>
     : g \in {h \in UNION {[1..n -> 1..Len(ShapeOrder)] : n \in 1..MaxBrushes} :
                \A i \in DOMAIN h : i = 1 \/ h[i - 1] < h[i]}}

PointProps ==
    {[classname |-> "mover"],
     [classname |-> "mover", mover_kind |-> "door", key |-> "k1", open_once |-> "1"],
     [classname |-> "mover", mover_kind |-> "linear", moving_time |-> "3",
      destination_time |-> "x", destination_offset |-> <<"1", "2", "3">>],
     [classname |-> "mover", mover_kind |-> "gate", origin |-> <<"1", "2", "3">>,
      destination_offset |-> <<"1", "2">>],
     [classname |-> "mover", mover_kind |-> "door", moving_time |-> "-1"],
     [classname |-> "light", origin |-> <<"1", "2">>, targetname |-> "l1"],
     [classname |-> "door", mover_kind |-> "door"],
     [mover_kind |-> "door"],
     [classname |-> "info", origin |-> <<"a", "b", "c">>]}

BrushProps ==
    {<<World0>>,
     <<[classname |-> "mover", mover_kind |-> "door"]>>,
     <<[classname |-> "mover", targetname |-> "m1"]>>,
     <<[classname |-> "trigger_multiple", target |-> "t1"]>>,
     <<[classname |-> "trigger_once", target |-> "t1"]>>,
     <<[classname |-> "trigger_multiple"]>>,
     <<[classname |-> "trigger_once"]>>,
     <<>>}

\* property family: a point entity and a brush entity of every class
PropertyMaps ==
    {<<Entity(<<p>>, <<>>),
       Entity(q, << <<Face(TexIvy, "A", TRUE), Face(TexTrigger, "B", TRUE)>> >>)>>
     : p \in PointProps, q \in BrushProps}

\* degenerate family: a brush of one triangle, which yields no convex
\* volume, alone or beside a solid brush of the same entity
DegenerateProps ==
    {<<World0>>,
     <<[classname |-> "trigger_once"]>>,
     <<[classname |-> "trigger_multiple", target |-> "t1"]>>}

DegenerateMaps ==
    {<<Entity(q, << <<Face(TexWall, "T", TRUE)>> >>)>> : q \in DegenerateProps}
    \cup {<<Entity(<<World0>>, << <<Face(TexWall, "T", TRUE)>>,
                                  <<Face(TexWall, "A", TRUE)>> >>)>>}

Maps == TextureMaps \cup BatchMaps \cup PropertyMaps \cup DegenerateMaps

(* ------------------------------ state --------------------------------- *)
VARIABLES
    asset,                 \* the MapAsset's geomap: the entities of the map
    nodes,                 \* the scene: entity id -> node
    next_id,               \* the next entity id
    ev_asset,              \* unread LoadedWithDependencies events
    loads,                 \* asset events delivered so far
    spawn_mesh_event,      \* unread SpawnMeshEvents
    post_build_map_event,  \* unread PostBuildMapEvents
    aborted,               \* a system panicked
    hist                   \* history: what the systems did, for the properties

vars == <<asset, nodes, next_id, ev_asset, loads, spawn_mesh_event,
          post_build_map_event, aborted, hist>>

MapNode == [kind |-> "map", parent |-> 0, transform |-> TransformIdentity]

Hist0 ==
    [cycle |-> 0, map_of |-> <<>>, next_uid |-> 1, sent |-> {}, issued |-> {},
     brush_log |-> {},
     batch_log |-> {}, consumed |-> <<>>, runs |-> 0, resolved |-> {}]

Init ==
    /\ asset \in Maps
    /\ nodes = [m \in MapEntities |-> MapNode]
    /\ next_id = NumMaps + 1
    /\ ev_asset = 0
    /\ loads = 0
    /\ spawn_mesh_event = <<>>
    /\ post_build_map_event = <<>>
    /\ aborted = FALSE
    /\ hist = Hist0

\* the state as the record the system operators work on
World ==
    [nodes |-> nodes, next_id |-> next_id,
     spawn_mesh_event |-> spawn_mesh_event,
     post_build_map_event |-> post_build_map_event, panicked |-> FALSE,
     cycle |-> hist.cycle, map_of |-> hist.map_of,
     next_uid |-> hist.next_uid, sent |-> hist.sent,
     issued |-> hist.issued, brush_log |-> hist.brush_log,
     batch_log |-> hist.batch_log, consumed |-> hist.consumed,
     runs |-> hist.runs, resolved |-> hist.resolved]

\* the system returned (its commands are applied) or panicked
Apply(w) ==
    IF w.panicked
    THEN /\ aborted' = TRUE
         /\ UNCHANGED <<nodes, next_id, spawn_mesh_event, post_build_map_event, hist>>
    ELSE /\ nodes' = w.nodes
         /\ next_id' = w.next_id
         /\ spawn_mesh_event' = w.spawn_mesh_event
         /\ post_build_map_event' = w.post_build_map_event
         /\ hist' = [cycle |-> w.cycle, map_of |-> w.map_of,
                     next_uid |-> w.next_uid, sent |-> w.sent,
                     issued |-> w.issued, brush_log |-> w.brush_log,
                     batch_log |-> w.batch_log, consumed |-> w.consumed,
                     runs |-> w.runs, resolved |-> w.resolved]
         /\ UNCHANGED aborted

\* the asset server reports the map asset (re)loaded
AssetLoaded ==
    /\ ~aborted
    /\ loads < MaxLoads
    /\ loads' = loads + 1
    /\ ev_asset' = ev_asset + 1
    /\ UNCHANGED <<asset, nodes, next_id, spawn_mesh_event, post_build_map_event,
                   aborted, hist>>

HandleLoadedMapSystem ==
    /\ ~aborted
    /\ ev_asset > 0
    /\ \E w \in HandleEvents({World}, asset, ev_asset) : Apply(w)
    /\ ev_asset' = 0
    /\ UNCHANGED <<asset, loads>>

MeshSpawnSystem ==
    /\ ~aborted
    /\ spawn_mesh_event # <<>>
    /\ Apply(mesh_spawn_system(World))
    /\ UNCHANGED <<asset, ev_asset, loads>>

PostBuildMapSystem ==
    /\ ~aborted
    /\ post_build_map_event # <<>>
    /\ Apply(post_build_map_system(World))
    /\ UNCHANGED <<asset, ev_asset, loads>>

Next ==
    \/ AssetLoaded
    \/ HandleLoadedMapSystem
    \/ MeshSpawnSystem
    \/ PostBuildMapSystem

Spec == Init /\ [][Next]_vars

(* ------------- consolidation of moved collision volumes --------------- *)
\* A trigger volume is a dynamic rigid body: between build_map and
\* mesh_spawn_system its Transform may have been moved.  This specification
\* starts after one build of a trigger entity with two brushes, the two
\* volumes moved by small translations, and runs the systems from there.
Translations == {<<x, y, z>> : x \in {0, 5}, y \in {0, -5}, z \in {0, 5}}

MergeMap ==
    <<Entity(<<[classname |-> "trigger_multiple", target |-> "t1"]>>,
             << <<Face(TexWall, "A", TRUE)>>, <<Face(TexWall, "B", TRUE)>> >>)>>

\* the state build_map starts from on the first asset event
InitialWorld ==
    [nodes |-> [m \in MapEntities |-> MapNode], next_id |-> NumMaps + 1,
     spawn_mesh_event |-> <<>>, post_build_map_event |-> <<>>,
     panicked |-> FALSE,
     cycle |-> Hist0.cycle, map_of |-> Hist0.map_of,
     next_uid |-> Hist0.next_uid, sent |-> Hist0.sent,
     issued |-> Hist0.issued, brush_log |-> Hist0.brush_log,
     batch_log |-> Hist0.batch_log, consumed |-> Hist0.consumed,
     runs |-> Hist0.runs, resolved |-> Hist0.resolved]

Moved(ns, t) ==
    [id \in DOMAIN ns |->
        IF ns[id].kind = "collider"
        THEN [ns[id] EXCEPT !.transform.translation = t[id]]
        ELSE ns[id]]

InitMerge ==
    /\ asset = MergeMap
    /\ ev_asset = 0
    /\ loads = MaxLoads
    /\ aborted = FALSE
    /\ \E w \in build_map(InitialWorld, 1, MergeMap) :
          /\ \E t \in [{id \in DOMAIN w.nodes : w.nodes[id].kind = "collider"}
                           -> Translations] :
                nodes = Moved(w.nodes, t)
          /\ next_id = w.next_id
          /\ spawn_mesh_event = w.spawn_mesh_event
          /\ post_build_map_event = w.post_build_map_event
          /\ hist = [cycle |-> w.cycle, map_of |-> w.map_of,
                     next_uid |-> w.next_uid, sent |-> w.sent,
                     issued |-> w.issued, brush_log |-> w.brush_log,
                     batch_log |-> w.batch_log, consumed |-> w.consumed,
                     runs |-> w.runs, resolved |-> w.resolved]

NextMerge ==
    \/ MeshSpawnSystem
    \/ PostBuildMapSystem

SpecMerge == InitMerge /\ [][NextMerge]_vars

(* ----------------------- one more Map entity -------------------------- *)
\* The scene holds one Map entity more than MapEntities; every asset event
\* rebuilds each of them (load.rs 61).
SceneMaps == 1..(NumMaps + 1)

TwoMapPointProps ==
    {p \in PointProps :
        /\ "classname" \in DOMAIN p
        /\ p.classname \in {"mover", "light"}
        /\ "moving_time" \notin DOMAIN p}

TwoMapBrushProps ==
    {<<World0>>, <<[classname |-> "mover", mover_kind |-> "door"]>>}

TwoMapMaps ==
    {<<Entity(<<p>>, <<>>),
       Entity(q, << <<Face(TexIvy, "A", TRUE), Face(TexTrigger, "B", TRUE)>> >>)>>
     : p \in TwoMapPointProps, q \in TwoMapBrushProps}

InitTwoMaps ==
    /\ asset \in TwoMapMaps
    /\ nodes = [m \in SceneMaps |-> MapNode]
    /\ next_id = NumMaps + 2
    /\ ev_asset = 0
    /\ loads = 0
    /\ spawn_mesh_event = <<>>
    /\ post_build_map_event = <<>>
    /\ aborted = FALSE
    /\ hist = Hist0

SpecTwoMaps == InitTwoMaps /\ [][Next]_vars
(* ======================= properties of the build ====================== *)
\* the faces of the brush a brush_log entry is about
BrushFaces(e) == asset[e.ent].brushes[e.brush]

AllFaces(e) == {BrushFaces(e)[i] : i \in DOMAIN BrushFaces(e)}

FaceVertexSet(f) == SeqToSet(face_vertices(f.shape))

ReservedNames == {TexTrigger, TexClip, TexCommonTrigger, TexCommonClip}

HasFoliageMarker(t) == \E i \in 1..(Len(t) - 1) : t[i] = "-" /\ t[i + 1] = "f"

SentOfBrush(e) ==
    {ev \in hist.sent : ev.cycle = e.cycle /\ ev.collider = e.collider}

\* C1 as stated: for every brush processed by build_map, the point set
\* handed to the convex-hull constructor equals the union of the vertices of
\* every face of the brush, whatever its texture.
C1_HullOfAllFaces ==
    \A e \in hist.brush_log :
        e.points = UNION {FaceVertexSet(f) : f \in AllFaces(e)}

\* C1 amended: for every brush processed by build_map, the point set handed
\* to the convex-hull constructor equals the union of the vertices of every
\* face of the brush that has an entry in the triangulation output, whatever
\* its texture; a face without triangle indices is skipped before its
\* vertices are added.
C1_HullOfTriangulatedFaces ==
    \A e \in hist.brush_log :
        e.points = UNION {FaceVertexSet(f) : f \in {g \in AllFaces(e) : g.has_indices}}

\* a brush with a no-render face that is triangulated and a face that is
\* not has been handed to the hull constructor
C1_Witness ==
    \E e \in hist.brush_log :
        /\ e.hull
        /\ \E f, g \in AllFaces(e) :
              /\ f.tex \in ReservedNames /\ f.has_indices
              /\ ~g.has_indices /\ ~(FaceVertexSet(g) \subseteq e.points)

\* the vertices of the faces of a list, concatenated
RECURSIVE ConcatVertices(_)
ConcatVertices(faces) ==
    IF faces = <<>> THEN <<>>
    ELSE face_vertices(Head(faces).shape) \o ConcatVertices(Tail(faces))

\* the faces of texture t that reach the fragment of t
FacesOfTexture(e, t) ==
    LET Keep(f) == f.tex = t /\ f.has_indices
    IN  SelectSeq(BrushFaces(e), Keep)

\* what C2 says of fragments and events: a no-render face adds nothing to a
\* fragment and no event carries a no-render texture name
NoRenderFacesUnrendered ==
    /\ \A e \in hist.brush_log :
          \A t \in DOMAIN e.meshes_to_spawn :
              /\ t \notin ReservedNames
              /\ e.meshes_to_spawn[t].positions = ConcatVertices(FacesOfTexture(e, t))
    /\ \A ev \in hist.sent : ev.texture_name \notin ReservedNames

\* C2 as stated: for every face whose texture is trigger, clip,
\* common/trigger or common/clip, build_map adds nothing to any fragment and
\* no SpawnMeshEvent carries that name, while the face's vertices are in the
\* brush's collision point set.
C2_NoRenderFaceCollides ==
    /\ NoRenderFacesUnrendered
    /\ \A e \in hist.brush_log : \A f \in AllFaces(e) :
          f.tex \in ReservedNames => FaceVertexSet(f) \subseteq e.points

\* C2 amended: for every face whose texture is trigger, clip, common/trigger
\* or common/clip, build_map adds nothing to any fragment and no
\* SpawnMeshEvent carries that name, while the face's vertices are in the
\* brush's collision point set when the face has triangle indices.
C2_NoRenderTriangulatedFaceCollides ==
    /\ NoRenderFacesUnrendered
    /\ \A e \in hist.brush_log : \A f \in AllFaces(e) :
          f.tex \in ReservedNames /\ f.has_indices
              => FaceVertexSet(f) \subseteq e.points

\* a brush with a triangulated no-render face and a rendered face has sent
\* its event
C2_Witness ==
    \E e \in hist.brush_log :
        /\ \E f \in AllFaces(e) : f.tex \in ReservedNames /\ f.has_indices
        /\ SentOfBrush(e) # {}

RenderNodes == {id \in DOMAIN nodes : nodes[id].kind = "render"}

\* what C3 says of events and batches: a texture without material gets none
UnregisteredUnrendered ==
    /\ \A ev \in hist.sent : ev.texture_name \in DOMAIN material_handles
    /\ \A b \in hist.batch_log : b.texture_name \in DOMAIN material_handles
    /\ \A id \in RenderNodes : nodes[id].texture_name \in DOMAIN material_handles

\* C3 as stated: a texture name absent from material_handles never gets a
\* SpawnMeshEvent or a final render batch, while the vertices of the faces
\* using it are part of their brush's collision point set.
C3_UnregisteredCollides ==
    /\ UnregisteredUnrendered
    /\ \A e \in hist.brush_log : \A f \in AllFaces(e) :
          f.tex \notin DOMAIN material_handles => FaceVertexSet(f) \subseteq e.points

\* C3 amended: a texture name absent from material_handles never gets a
\* SpawnMeshEvent or a final render batch, while the vertices of the faces
\* using it that have triangle indices are part of their brush's collision
\* point set.
C3_UnregisteredTriangulatedCollides ==
    /\ UnregisteredUnrendered
    /\ \A e \in hist.brush_log : \A f \in AllFaces(e) :
          f.tex \notin DOMAIN material_handles /\ f.has_indices
              => FaceVertexSet(f) \subseteq e.points

\* a brush with a triangulated face of a texture without material, and a
\* fragment for it, has been built and its events consolidated
C3_Witness ==
    \E e \in hist.brush_log :
        /\ \E f \in AllFaces(e) :
              /\ f.tex \notin DOMAIN material_handles /\ f.has_indices
              /\ f.tex \in DOMAIN e.meshes_to_spawn
        /\ \E b \in hist.batch_log : b.cycle = e.cycle
(* ==================== properties of the consolidator ================== *)
Consumed == hist.consumed

EventOf(uid) == CHOOSE ev \in hist.sent : ev.uid = uid

\* floor(x / 50) of a doubled coordinate x2 = 2x, from the definition of floor
CellOf(x2) == CHOOSE q \in -16..16 : 100 * q <= x2 /\ x2 < 100 * (q + 1)

CellsOf(c2) == [a \in 1..3 |-> CellOf(c2[a])]

\* (owning brush node, material, floor(world center / 50) per axis)
ExpectedKey(i) ==
    <<EventOf(Consumed[i].uid).brush, EventOf(Consumed[i].uid).material,
      CellsOf(Consumed[i].center2)>>

InSameBatch(i, j) ==
    \E b \in hist.batch_log :
        /\ b.run = Consumed[i].run
        /\ Consumed[i].uid \in b.srcs
        /\ Consumed[j].uid \in b.srcs

CycleDone(c) ==
    /\ c \in hist.issued
    /\ \A ev \in hist.sent :
          ev.cycle = c => \E i \in DOMAIN Consumed : Consumed[i].uid = ev.uid

\* the final render batches of build c, node identities replaced by the map
\* entity and the brush they were spawned for
NormBatches(c) ==
    {[ent |-> b.ent, material |-> b.key[2], bucket |-> b.key[3],
      parent_brush |-> b.parent_brush, vertex_count |-> b.vertex_count]
     : b \in {x \in hist.batch_log : x.cycle = c}}

\* C5: rebuilding the same map asset on the same map node yields the same
\* set of final render batches (keys up to renaming of the node identities,
\* merged vertex count per key), whatever order the fragments of a brush are
\* emitted in.
C5_RebuildSameBatches ==
    \A c1, c2 \in hist.issued :
        /\ CycleDone(c1) /\ CycleDone(c2)
        /\ hist.map_of[c1] = hist.map_of[c2]
        => NormBatches(c1) = NormBatches(c2)

FirstEventOf(c) ==
    CHOOSE ev \in hist.sent :
        /\ ev.cycle = c
        /\ \A other \in hist.sent : other.cycle = c => ev.uid <= other.uid

\* two builds of one map node were consolidated, each into a batch per
\* texture, and their fragments were emitted in different orders
C5_Witness ==
    \E c1, c2 \in hist.issued :
        /\ c1 < c2
        /\ hist.map_of[c1] = hist.map_of[c2]
        /\ CycleDone(c1) /\ CycleDone(c2)
        /\ Cardinality(NormBatches(c1)) >= 2
        /\ FirstEventOf(c1).texture_name # FirstEventOf(c2).texture_name

\* the normals C6 expects of the faces of a fragment
RECURSIVE ExpectedNormals(_)
ExpectedNormals(faces) ==
    IF faces = <<>> THEN <<>>
    ELSE LET f == Head(faces)
             n == face_normals(f.shape)
         IN  (IF HasFoliageMarker(f.tex)
              THEN [i \in 1..Len(n) |-> <<0, 1, 0>>]
              ELSE n) \o ExpectedNormals(Tail(faces))

\* C6: every normal a foliage face writes into its fragment is (0,1,0), one
\* per input normal; the normals of any other rendered face are written
\* unchanged.
C6_FoliageNormalsUp ==
    /\ \A e \in hist.brush_log : \A t \in DOMAIN e.meshes_to_spawn :
          e.meshes_to_spawn[t].normals = ExpectedNormals(FacesOfTexture(e, t))
    /\ \A ev \in hist.sent :
          HasFoliageMarker(ev.texture_name)
              => \A i \in DOMAIN ev.mesh.normals : ev.mesh.normals[i] = <<0, 1, 0>>

\* a brush with a foliage face whose input normal is not up, and a rendered
\* face without the marker, has sent its fragments
C6_Witness ==
    \E e \in hist.brush_log :
        /\ \E f, g \in AllFaces(e) :
              /\ HasFoliageMarker(f.tex) /\ f.has_indices
              /\ FlatNormal(f.shape) # <<0, 1, 0>>
              /\ ~HasFoliageMarker(g.tex) /\ g.tex \in DOMAIN e.meshes_to_spawn
        /\ \E ev \in SentOfBrush(e) : HasFoliageMarker(ev.texture_name)
(* ==================== collision of foliage brushes ==================== *)
ClassOf(e) == PropOr(asset[e.ent].props[1], "classname", "")

\* the brushes whose collision node is alive and whose entity is no trigger
SolidCandidates ==
    {e \in hist.brush_log :
        /\ e.collider # <<>>
        /\ e.collider[1] \in DOMAIN nodes
        /\ ~IsTriggerClass(ClassOf(e))}

OnlyFoliageFaces(e) == \A f \in AllFaces(e) : HasFoliageMarker(f.tex)

\* C7: for a brush whose entity is neither trigger_multiple nor trigger_once,
\* collision is suppressed iff the brush contains only foliage faces; a brush
\* mixing foliage and other faces gets a solid, static collision volume.
C7_SuppressedIffOnlyFoliage ==
    \A e \in SolidCandidates :
        /\ ~nodes[e.collider[1]].collider <=> OnlyFoliageFaces(e)
        /\ ~OnlyFoliageFaces(e) =>
              /\ nodes[e.collider[1]].collider
              /\ nodes[e.collider[1]].rigid_body = "Static"

(* ==================== properties of the resolver ====================== *)
EntityNodes == {id \in DOMAIN nodes : nodes[id].kind = "entity"}

\* the entities of class mover a post-build pass has gone over
ResolvedMovers ==
    {id \in EntityNodes : nodes[id].classname = "mover" /\ nodes[id].passes > 0}

\* C8: after a post-build pass every entity of class mover carries a Mover in
\* state Idle-at-origin; absent moving_time, destination_time and
\* destination_offset give 1.0 s, 2.0 s and the zero vector (thousandths).
C8_MoverDefaults ==
    \A id \in ResolvedMovers :
        LET n == nodes[id]
        IN  /\ n.mover # <<>>
            /\ n.mover[1].state = "IdleAtOrigin"
            /\ "moving_time" \notin DOMAIN n.properties
                  => n.mover[1].moving_time = 1000
            /\ "destination_time" \notin DOMAIN n.properties
                  => n.mover[1].destination_time = 2000
            /\ "destination_offset" \notin DOMAIN n.properties
                  => n.mover[1].destination_offset = <<0, 0, 0>>

\* a pass went over a mover with no other property, and over one with
\* properties of its own
C8_Witness ==
    /\ \E id \in ResolvedMovers :
          /\ nodes[id].properties = [classname |-> "mover"]
          /\ nodes[id].mover =
                <<[moving_time |-> 1000, destination_time |-> 2000,
                   destination_offset |-> <<0, 0, 0>>, state |-> "IdleAtOrigin"]>>
    /\ \E id \in ResolvedMovers : "targetname" \in DOMAIN nodes[id].properties

IsDoorMover(n) ==
    /\ n.classname = "mover"
    /\ PropOr(n.properties, "mover_kind", "") = "door"

\* C9: the post-build pass attaches a Door to an entity iff its classname is
\* mover and its mover_kind is door; a mover without mover_kind or with
\* another value, and an entity of another class, gets none.
C9_DoorIffMoverKindDoor ==
    \A id \in EntityNodes :
        /\ nodes[id].door # <<>> => IsDoorMover(nodes[id])
        /\ nodes[id].passes > 0 /\ IsDoorMover(nodes[id]) => nodes[id].door # <<>>

\* one pass went over a door mover, which has a Door, and over a mover
\* without mover_kind, which has none
C9_Witness ==
    \E a, b \in ResolvedMovers :
        /\ IsDoorMover(nodes[a]) /\ nodes[a].door # <<>>
        /\ "mover_kind" \notin DOMAIN nodes[b].properties
        /\ nodes[b].mover # <<>> /\ nodes[b].door = <<>>

(* ==================== order of the stages ============================= *)
Unconsumed(ev) == \A i \in DOMAIN Consumed : Consumed[i].uid # ev.uid

\* C10 as stated: the PostBuildMapEvent of a cycle is issued only after
\* mesh_spawn_system has consumed every SpawnMeshEvent of that cycle.
C10_SignalAfterConsolidation ==
    \A c \in hist.issued : \A ev \in hist.sent : ev.cycle = c => ~Unconsumed(ev)

\* C10, amended: build_map issues the PostBuildMapEvent of a cycle itself,
\* once it has sent every SpawnMeshEvent of the cycle and before
\* mesh_spawn_system consumes any of them; the resolver acts on issued
\* events only, and an issued event is unread or resolved.
C10_SignalAtEndOfBuild ==
    /\ \A i \in DOMAIN Consumed : EventOf(Consumed[i].uid).cycle \in hist.issued
    /\ ~aborted => \A ev \in hist.sent : ev.cycle \in hist.issued
    /\ hist.resolved \subseteq hist.issued
    /\ \A c \in hist.issued :
          \/ c \in hist.resolved
          \/ \E i \in DOMAIN post_build_map_event : post_build_map_event[i].cycle = c

\* the signal of a cycle is issued and unread while its SpawnMeshEvents are
\* still to be consumed
C10_Witness ==
    \E c \in hist.issued :
        /\ c \notin hist.resolved
        /\ \E ev \in hist.sent : ev.cycle = c /\ Unconsumed(ev)
        /\ \A ev \in hist.sent : ev.cycle = c => Unconsumed(ev)
(* ==================== fatal configurations ============================ *)
\* the first build of the asset has run: it completed or it panicked
BuildAborted == aborted /\ hist.cycle = 0

\* handle_loaded_map_system has read every asset event delivered
Handled == loads > 0 /\ ev_asset = 0

\* nothing of a build is in the scene and no signal was issued
NothingBuilt ==
    /\ hist.cycle = 0 /\ hist.issued = {} /\ hist.sent = {}
    /\ \A id \in DOMAIN nodes : nodes[id].kind = "map"
    /\ Handled => BuildAborted

BrushBearing(i) == asset[i].brushes # <<>>

HasProps(i) == asset[i].props # <<>>

\* the points of a brush that reach the convex-hull constructor are enough
\* for a volume
YieldsVolume(faces) ==
    Cardinality(UNION {FaceVertexSet(faces[k]) :
                         k \in {x \in DOMAIN faces : faces[x].has_indices}}) >= 4

TriggerWithoutTarget(i) ==
    /\ BrushBearing(i) /\ HasProps(i)
    /\ PropOr(asset[i].props[1], "classname", "")
          \in {"trigger_multiple", "trigger_once"}
    /\ "target" \notin DOMAIN asset[i].props[1]

TriggerVolumes ==
    {e \in hist.brush_log :
        /\ e.collider # <<>>
        /\ e.collider[1] \in DOMAIN nodes
        /\ IsTriggerClass(ClassOf(e))}

\* every trigger volume is a sensor carrying the target of its entity
TriggerVolumesAreSensors ==
    \A e \in TriggerVolumes :
        LET n == nodes[e.collider[1]]
        IN  /\ n.sensor /\ n.collider /\ n.rigid_body = "Dynamic"
            /\ n.trigger # <<>>
            /\ n.trigger[1].target = asset[e.ent].props[1]["target"]
            /\ n.trigger[1].kind = (IF ClassOf(e) = "trigger_multiple"
                                    THEN "TriggerMultiple" ELSE "TriggerOnce")

\* C11 as stated: the build aborts when a brush-bearing entity has no
\* properties and when a brush of a trigger entity has no target; with a
\* target every brush of such an entity gets a sensor volume carrying it.
C11_TriggerBrushFatalOrSensor ==
    /\ (\E i \in DOMAIN asset : BrushBearing(i) /\ ~HasProps(i))
          => NothingBuilt
    /\ (\E i \in DOMAIN asset : TriggerWithoutTarget(i)) => NothingBuilt
    /\ TriggerVolumesAreSensors
    /\ \A e \in hist.brush_log : IsTriggerClass(ClassOf(e)) => e.collider # <<>>

\* C11, amended: the build aborts when a brush-bearing entity has no
\* properties, and when a brush that yields a convex volume belongs to a
\* trigger entity without target; a brush of a trigger entity that yields no
\* volume aborts nothing and gets no volume; with a target every brush that
\* yields a volume gets a sensor volume carrying it, foliage or not.
C11_VolumeBrushFatalOrSensor ==
    /\ (\E i \in DOMAIN asset : BrushBearing(i) /\ ~HasProps(i))
          => NothingBuilt
    /\ (\E i \in DOMAIN asset :
           /\ TriggerWithoutTarget(i)
           /\ \E b \in DOMAIN asset[i].brushes : YieldsVolume(asset[i].brushes[b]))
          => NothingBuilt
    /\ (/\ Handled
        /\ \A i \in DOMAIN asset :
              /\ TriggerWithoutTarget(i)
              /\ \A b \in DOMAIN asset[i].brushes :
                    ~YieldsVolume(asset[i].brushes[b]))
          => ~BuildAborted /\ hist.issued # {}
    /\ TriggerVolumesAreSensors
    /\ \A e \in hist.brush_log :
          IsTriggerClass(ClassOf(e))
              => (e.collider # <<>> <=> YieldsVolume(BrushFaces(e)))

\* the build of a map with a foliage brush of a trigger entity without
\* target was aborted
C11_Witness ==
    /\ Handled /\ BuildAborted
    /\ \E i \in DOMAIN asset :
          /\ TriggerWithoutTarget(i)
          /\ \E b \in DOMAIN asset[i].brushes :
                /\ YieldsVolume(asset[i].brushes[b])
                /\ \E k \in DOMAIN asset[i].brushes[b] :
                      HasFoliageMarker(asset[i].brushes[b][k].tex)
(* ==================== stale references ================================ *)
\* the node the event refers to is no longer in the scene
StaleEvent(ev) == AttachParent(ev.collider, ev.map) \notin DOMAIN nodes

\* C12: when the node an event refers to no longer exists at the time
\* mesh_spawn_system processes the event, the consolidator completes the
\* cycle for all events without aborting.
C12_StaleReferenceTolerated ==
    [][(/\ \E i \in DOMAIN spawn_mesh_event : StaleEvent(spawn_mesh_event[i])
        /\ MeshSpawnSystem)
          => (~aborted' /\ spawn_mesh_event' = <<>>)]_vars
(* ==================== origin and angles of point entities ============= *)
NumericTokens == {"0", "1", "2", "3", "0.5", "-1"}

ThreeNumbers(tokens) ==
    Len(tokens) = 3 /\ \A k \in 1..3 : tokens[k] \in NumericTokens

\* the vector C13 expects of a property: the converted numbers of a string
\* of exactly three numeric tokens, the zero vector of any other string
ExpectedVec3(props, key) ==
    IF key \in DOMAIN props /\ ThreeNumbers(props[key])
    THEN <<ParseF32(props[key][2])[1], ParseF32(props[key][3])[1],
           ParseF32(props[key][1])[1]>>
    ELSE <<0, 0, 0>>

\* the build has a fatal configuration among its brush entities
BrushFatal ==
    \E i \in DOMAIN asset :
        /\ BrushBearing(i)
        /\ \/ ~HasProps(i)
           \/ /\ TriggerWithoutTarget(i)
              /\ \E b \in DOMAIN asset[i].brushes : YieldsVolume(asset[i].brushes[b])

\* C13: a point entity's origin (angles) becomes a position (rotation) only
\* when it is exactly three numeric tokens; any other string gives the zero
\* position (identity rotation), the entity node is still spawned and the
\* build continues.
C13_MalformedFallsBack ==
    \A i \in DOMAIN asset :
        ~BrushBearing(i) /\ HasProps(i) =>
            /\ \A id \in EntityNodes :
                  nodes[id].ent = i =>
                      /\ nodes[id].props_transform.translation
                            = ExpectedVec3(asset[i].props[1], "origin")
                      /\ nodes[id].props_transform.rotation
                            = ExpectedVec3(asset[i].props[1], "angles")
            /\ Handled /\ ~BrushFatal =>
                  /\ ~BuildAborted
                  /\ hist.cycle > 0
(* ==================== events of a brush =============================== *)
\* the events of build e.cycle for texture t that refer to e's volume (to
\* none, where e has none)
EventsFor(e, t) ==
    {ev \in hist.sent :
        ev.cycle = e.cycle /\ ev.texture_name = t /\ ev.collider = e.collider}

\* the brushes of e's build without volume that have a fragment of texture t
VolumelessWith(e, t) ==
    {d \in hist.brush_log :
        d.cycle = e.cycle /\ d.collider = <<>> /\ t \in DOMAIN d.meshes_to_spawn}

\* C14: for every brush and every texture of it with a registered material
\* and a rendered face, exactly one SpawnMeshEvent is emitted, referring to
\* the brush's collision volume when there is one; a brush without convex
\* volume aborts nothing and its events are emitted with no volume.
C14_OneEventPerBrushTexture ==
    \A e \in hist.brush_log : \A t \in DOMAIN e.meshes_to_spawn :
        t \in DOMAIN material_handles =>
            IF e.collider # <<>>
            THEN Cardinality(EventsFor(e, t)) = 1
            ELSE Cardinality(EventsFor(e, t)) = Cardinality(VolumelessWith(e, t))
(* ==================== Brush markers =================================== *)
\* the nodes carrying a Brush component: markers and final render objects
BrushCarriers == {id \in DOMAIN nodes : nodes[id].kind \in {"brush", "render"}}

\* the event that started a group: events are read in the order sent
FirstOf(srcs) == CHOOSE u \in srcs : \A v \in srcs : u <= v

\* the event a Brush component was written for
CarrierOf(id) ==
    IF nodes[id].kind = "brush" THEN nodes[id].uid ELSE FirstOf(nodes[id].srcs)

\* the consumed events whose reference node is still in the scene
LiveConsumed ==
    {ev \in hist.sent : ~Unconsumed(ev) /\ ~StaleEvent(ev)}

CarriesBrushOf(id, ev) ==
    /\ nodes[id].parent = AttachParent(ev.collider, ev.map)
    /\ nodes[id].texture_name = ev.texture_name
    /\ nodes[id].texture_size = ev.texture_size

\* C15 as stated: for every SpawnMeshEvent consumed, whether it starts a
\* group or is merged into one, a Brush marker node with its texture name
\* and size is spawned under its collision volume.
C15_MarkerPerEvent ==
    \A ev \in LiveConsumed :
        \E id \in DOMAIN nodes :
            /\ nodes[id].kind = "brush"
            /\ nodes[id].uid = ev.uid
            /\ CarriesBrushOf(id, ev)

\* C15, amended: an event merged into a started group gets a Brush marker
\* node under its own collision volume; an event that starts a group gets
\* none, the Brush component with its texture name and size is on the
\* group's render object, a child of that event's collision volume.  Every
\* consumed event so has exactly one node carrying its Brush component.
C15_BrushComponentPerEvent ==
    /\ \A ev \in LiveConsumed :
          LET carriers == {id \in BrushCarriers : CarrierOf(id) = ev.uid}
          IN  /\ Cardinality(carriers) = 1
              /\ \A id \in carriers :
                    /\ CarriesBrushOf(id, ev)
                    /\ nodes[id].kind = "brush"
                          <=> \E b \in hist.batch_log :
                                 ev.uid \in b.srcs /\ ev.uid # FirstOf(b.srcs)
    /\ \A id \in BrushCarriers :
          \E ev \in LiveConsumed : CarrierOf(id) = ev.uid

\* a fragment was merged into the group of another brush's fragment: the
\* marker and the render object hang under different collision volumes
C15_Witness ==
    \E id, rid \in DOMAIN nodes :
        /\ nodes[id].kind = "brush" /\ nodes[rid].kind = "render"
        /\ nodes[id].uid \in nodes[rid].srcs
        /\ nodes[id].parent # nodes[rid].parent
(* ==================== merging into a started group ==================== *)
\* the uids of a group in the order the events were read
RECURSIVE SortedUids(_)
SortedUids(srcs) ==
    IF srcs = {} THEN <<>>
    ELSE <<FirstOf(srcs)>> \o SortedUids(srcs \ {FirstOf(srcs)})

RefTranslation(ev) == nodes[AttachParent(ev.collider, ev.map)].transform.translation

\* the vertices of ev as C16 stores them under the first fragment's node
InFrameOf(ev, first) ==
    [i \in DOMAIN ev.mesh.positions |->
        [a \in 1..3 |-> ev.mesh.positions[i][a] + RefTranslation(ev)[a]
                                                - RefTranslation(first)[a]]]

RECURSIVE ExpectedPositions(_, _, _)
ExpectedPositions(uids, i, first) ==
    IF i > Len(uids) THEN <<>>
    ELSE (IF i = 1 THEN first.mesh.positions
          ELSE InFrameOf(EventOf(uids[i]), first))
         \o ExpectedPositions(uids, i + 1, first)

\* C16: a fragment merged into a started group is stored mapped by
\* inverse(transform of the first fragment's reference node) composed with
\* the transform of its own reference node: for translations t_first and
\* t_in a vertex v is stored as v + t_in - t_first.
C16_MergedInFirstFrame ==
    \A rid \in RenderNodes :
        nodes[rid].mesh.positions
            = ExpectedPositions(SortedUids(nodes[rid].srcs), 1,
                                EventOf(FirstOf(nodes[rid].srcs)))
(* ==================== every event once ================================ *)
\* the vertices of a set of events
RECURSIVE EventVertices(_)
EventVertices(S) ==
    IF S = {} THEN 0
    ELSE LET ev == CHOOSE y \in S : TRUE
         IN  Len(ev.mesh.positions) + EventVertices(S \ {ev})

\* the vertices of a set of final batches
RECURSIVE BatchVertices(_)
BatchVertices(S) ==
    IF S = {} THEN 0
    ELSE LET b == CHOOSE y \in S : TRUE
         IN  b.vertex_count + BatchVertices(S \ {b})

ConsumedIn(r) ==
    {ev \in hist.sent :
        \E i \in DOMAIN Consumed : Consumed[i].uid = ev.uid /\ Consumed[i].run = r}

\* C17: every SpawnMeshEvent of a cycle is consumed exactly once by
\* mesh_spawn_system in that cycle: it is in exactly one final batch, the
\* vertex counts of batches and events add up to the same, and no event is
\* dropped, processed twice or carried over into a later cycle.
C17_ConsumedOnceInCycle ==
    /\ \A ev \in hist.sent : ev.cycle < hist.cycle => ~Unconsumed(ev)
    /\ \A i, j \in DOMAIN Consumed : Consumed[i].uid = Consumed[j].uid => i = j
    /\ \A ev \in hist.sent :
          ~Unconsumed(ev)
              => Cardinality({b \in hist.batch_log : ev.uid \in b.srcs}) = 1
    /\ \A r \in 1..hist.runs :
          BatchVertices({b \in hist.batch_log : b.run = r})
              = EventVertices(ConsumedIn(r))
(* ==================== what a rebuild leaves =========================== *)
MapNodes == {id \in DOMAIN nodes : nodes[id].kind = "map"}

\* the map node a node hangs under (0 when its chain of parents is broken)
RECURSIVE RootOf(_)
RootOf(id) ==
    IF id \notin DOMAIN nodes THEN 0
    ELSE IF nodes[id].kind = "map" THEN id
    ELSE RootOf(nodes[id].parent)

\* the build a node was created for
NodeCycle(id) ==
    IF nodes[id].kind = "brush" THEN EventOf(nodes[id].uid).cycle
    ELSE nodes[id].cycle

\* the latest build of map node m (0 when it was never built)
LatestCycleOf(m) ==
    LET cs == {c \in 1..hist.cycle : hist.map_of[c] = m}
    IN  IF cs = {} THEN 0 ELSE CHOOSE c \in cs : \A d \in cs : d <= c

\* the build c has been consolidated and resolved
CycleCompleted(c) == CycleDone(c) /\ c \in hist.resolved

Under(m, kind) ==
    {id \in DOMAIN nodes : nodes[id].kind = kind /\ RootOf(id) = m}

\* C18: once the last cycle has completed, the descendants of a map node
\* are exactly the nodes created for its latest build: entity nodes,
\* collision volumes, Brush markers and render batches; nothing of an
\* earlier build survives, and no render batch of an earlier build is
\* attached afterwards.
C18_OnlyLatestBuildSurvives ==
    /\ \A id \in DOMAIN nodes \ MapNodes :
          /\ RootOf(id) \in MapNodes
          /\ NodeCycle(id) = LatestCycleOf(RootOf(id))
    /\ \A m \in MapNodes :
          LET c == LatestCycleOf(m)
              events == {ev \in hist.sent : ev.cycle = c}
              batches == {b \in hist.batch_log : b.cycle = c}
              volumes == {e \in hist.brush_log : e.cycle = c /\ e.collider # <<>>}
          IN  c > 0 /\ CycleCompleted(c) =>
                /\ {nodes[id].ent : id \in Under(m, "entity")}
                      = {i \in DOMAIN asset : HasProps(i)}
                /\ Cardinality(Under(m, "entity"))
                      = Cardinality({i \in DOMAIN asset : HasProps(i)})
                /\ Under(m, "collider") = {e.collider[1] : e \in volumes}
                /\ Cardinality(Under(m, "render")) = Cardinality(batches)
                /\ Cardinality(Under(m, "brush"))
                      = Cardinality(events) - Cardinality(batches)

\* the second build of a map node has completed; the first one had render
\* batches and a marker, and the scene holds those of the second
C18_Witness ==
    \E m \in MapNodes :
        LET c == LatestCycleOf(m)
        IN  /\ c > 1 /\ CycleCompleted(c)
            /\ \E b \in hist.batch_log : b.cycle < c /\ hist.map_of[b.cycle] = m
            /\ Under(m, "render") # {}
            /\ Under(m, "brush") # {}
            /\ Under(m, "collider") # {}
(* ==================== the passes of the resolver ====================== *)
\* C19: a post-build pass triggered by the PostBuildMapEvent of map M
\* touches only entities of M, and each entity of M is resolved by exactly
\* one pass per build: an entity whose build's event was read has been gone
\* over once, any other entity not at all.
C19_OnePassPerBuild ==
    \A id \in EntityNodes :
        nodes[id].passes = (IF NodeCycle(id) \in hist.resolved THEN 1 ELSE 0)
====
